---- MODULE Spec2Model ----
(***************************************************************************)
(* Device dashboard client (frontend/src): the API client `api`, the       *)
(* Device List view (pages/Devices.tsx) and the Device Detail view         *)
(* (pages/DeviceDetail.tsx), run against the device Registry they poll.    *)
(***************************************************************************)
EXTENDS Integers, Sequences, FiniteSets, TLC

VARIABLES
    registry,     \* Registry: device id -> its approved flag
    net,          \* HTTP requests in flight, in the order fetch sent them
    devBuild,     \* TRUE: development build, React.StrictMode re-runs mount effects
    listMounted,  \* a Devices component is mounted
    devices,      \* Devices: useState<DeviceDTO[]>([])
    interval,     \* Devices: the setInterval timer is armed
    elapsed,      \* ms since the armed timer was set or last fired
    detMounted,   \* a DeviceDetail component is mounted
    id,           \* DeviceDetail: useParams().id
    device,       \* DeviceDetail: useState<DeviceDTO | null>(null); <<>> is null
    ui,           \* DeviceDetail: what the last render returned
    listSynced,   \* history: ids that were approved before a poll the mounted Devices applied was issued
    detSynced,    \* history: the same for the getDevice responses the mounted DeviceDetail applied
    apiPc,        \* one api() call followed on its own: "idle" | "fetching" | "settled"
    apiReq,       \* the request that call handed to fetch
    apiRes,       \* what fetch() gave that call
    apiOut        \* what that call's promise settled to

vars == <<registry, net, devBuild, listMounted, devices, interval, elapsed,
          detMounted, id, device, ui, listSynced, detSynced, apiPc, apiReq, apiRes, apiOut>>

listVars == <<listMounted, devices, interval, elapsed, listSynced>>
detVars == <<detMounted, id, device, ui, detSynced>>
apiVars == <<apiPc, apiReq, apiRes, apiOut>>

\* ------------------------------------------------------------------ bounds

\* At most this many requests are in flight at once.
MaxInFlight == 2

Ids == {"d1", "d2"}
NoId == "-"

\* ------------------------------------------------------------ JSON on the wire

\* A body is a sequence of tokens.
P(s) == [t |-> "punct", s |-> s, n |-> 0]
S(s) == [t |-> "str", s |-> s, n |-> 0]
N(n) == [t |-> "num", s |-> "", n |-> n]
B(b) == [t |-> IF b THEN "true" ELSE "false", s |-> "", n |-> 0]
Raw(s) == [t |-> "raw", s |-> s, n |-> 0]

ParseFail == [ok |-> FALSE, value |-> <<>>, rest |-> <<>>]
ParseOk(v, rest) == [ok |-> TRUE, value |-> v, rest |-> rest]

RECURSIVE ParseValue(_)
RECURSIVE ParseElements(_, _)
RECURSIVE ParseMembers(_, _)

\* One JSON value at the head of toks.
ParseValue(toks) ==
    IF toks = <<>> THEN ParseFail
    ELSE LET h == Head(toks)
             r == Tail(toks)
         IN  CASE h.t = "true" -> ParseOk(TRUE, r)
               [] h.t = "false" -> ParseOk(FALSE, r)
               [] h.t = "num" -> ParseOk(h.n, r)
               [] h.t = "str" -> ParseOk(h.s, r)
               [] h = P("[") ->
                    IF r # <<>> /\ Head(r) = P("]")
                    THEN ParseOk(<<>>, Tail(r))
                    ELSE ParseElements(r, <<>>)
               [] h = P("{") ->
                    IF r # <<>> /\ Head(r) = P("}")
                    THEN ParseOk(<<>>, Tail(r))
                    ELSE ParseMembers(r, <<>>)
               [] OTHER -> ParseFail

\* value ("," value)* "]"
ParseElements(toks, acc) ==
    LET v == ParseValue(toks)
    IN  IF ~v.ok \/ v.rest = <<>> THEN ParseFail
        ELSE IF Head(v.rest) = P("]") THEN ParseOk(Append(acc, v.value), Tail(v.rest))
        ELSE IF Head(v.rest) = P(",") THEN ParseElements(Tail(v.rest), Append(acc, v.value))
        ELSE ParseFail

\* string ":" value ("," string ":" value)* "}"
ParseMembers(toks, acc) ==
    IF Len(toks) < 3 \/ toks[1].t # "str" \/ toks[2] # P(":") THEN ParseFail
    ELSE LET v == ParseValue(SubSeq(toks, 3, Len(toks)))
         IN  IF ~v.ok \/ v.rest = <<>> THEN ParseFail
             ELSE LET obj == (toks[1].s :> v.value) @@ acc
                  IN  IF Head(v.rest) = P("}") THEN ParseOk(obj, Tail(v.rest))
                      ELSE IF Head(v.rest) = P(",") THEN ParseMembers(Tail(v.rest), obj)
                      ELSE ParseFail

\* Response.json(): the whole body is one JSON value, or the promise rejects.
JsonParse(body) ==
    LET v == ParseValue(body)
    IN  IF v.ok /\ v.rest = <<>> THEN [ok |-> TRUE, value |-> v.value]
        ELSE [ok |-> FALSE, value |-> <<>>]

\* ------------------------------------------------------------ the Registry

\* The sensors each device reports (fixed: the client never changes them).
Sensors(d) ==
    IF d = "d1" THEN <<[id |-> 1, name |-> "temp", type |-> "thermal"]>> ELSE <<>>

\* The order the Registry lists devices in.
RegistryOrder == <<"d1", "d2">>

RECURSIVE JoinComma(_)
JoinComma(parts) ==
    IF parts = <<>> THEN <<>>
    ELSE IF Len(parts) = 1 THEN parts[1]
    ELSE parts[1] \o <<P(",")>> \o JoinComma(Tail(parts))

SensorJson(s) ==
    <<P("{"), S("id"), P(":"), N(s.id), P(","), S("name"), P(":"), S(s.name), P(","),
      S("type"), P(":"), S(s.type), P("}")>>

\* GET /frontend/devices/{id}: { id, approved, sensors: [ {id, name, type} ] }
DetailJson(d, approved) ==
    <<P("{"), S("id"), P(":"), S(d), P(","), S("approved"), P(":"), B(approved), P(","),
      S("sensors"), P(":"), P("[")>>
    \o JoinComma([i \in 1..Len(Sensors(d)) |-> SensorJson(Sensors(d)[i])])
    \o <<P("]"), P("}")>>

\* One element of GET /frontend/devices: { id, approved, sensor_count }
SummaryJson(d, approved) ==
    <<P("{"), S("id"), P(":"), S(d), P(","), S("approved"), P(":"), B(approved), P(","),
      S("sensor_count"), P(":"), N(Len(Sensors(d))), P("}")>>

\* POST /frontend/devices/{id}/approve: { success: boolean }
ApprovalJson(success) == <<P("{"), S("success"), P(":"), B(success), P("}")>>

\* GET /frontend/devices: [ { id, approved, sensor_count } ]
ListJson(reg) ==
    <<P("[")>>
    \o JoinComma([i \in 1..Len(RegistryOrder) |->
                    SummaryJson(RegistryOrder[i], reg[RegistryOrder[i]])])
    \o <<P("]")>>

\* The body of a non-2xx reply: plain text.
ErrorText(status) ==
    IF status = 404 THEN <<Raw("Device not found")>> ELSE <<Raw("Internal Server Error")>>

\* ------------------------------------------------------------ the API client

\* What fetch() gives: a rejection (network failure), or a response whose body
\* stream can be read to its end or breaks.
FetchFailed == [failed |-> TRUE, status |-> 0, body |-> <<>>, readable |-> FALSE]
FetchResponse(status, body, readable) ==
    [failed |-> FALSE, status |-> status, body |-> body, readable |-> readable]

\* Response.ok
ResOk(res) == res.status >= 200 /\ res.status <= 299

Resolve(v) == [ok |-> TRUE, value |-> v, error |-> [name |-> "", message |-> <<>>]]
Reject(name, message) == [ok |-> FALSE, value |-> <<>>, error |-> [name |-> name, message |-> message]]

\* A mutant of api: the status is not looked at.
apiIgnoresStatus(res) ==
    IF res.failed THEN Reject("TypeError", <<>>)
    ELSE IF ~res.readable THEN Reject("TypeError", <<>>)
    ELSE LET p == JsonParse(res.body)
         IN  IF p.ok THEN Resolve(p.value) ELSE Reject("SyntaxError", <<>>)

\* async function api<T>(path, options): what its promise settles to, given what
\* fetch(path, options) gave.
api(res) ==
    IF res.failed THEN Reject("TypeError", <<>>)
    ELSE IF ~ResOk(res)
         THEN IF res.readable THEN Reject("Error", res.body) ELSE Reject("TypeError", <<>>)
    ELSE IF ~res.readable THEN Reject("TypeError", <<>>)
    ELSE LET p == JsonParse(res.body)
         IN  IF p.ok THEN Resolve(p.value) ELSE Reject("SyntaxError", <<>>)

\* The three operations: the request each one hands to api.
getDevices == [method |-> "GET", path |-> <<"frontend", "devices">>]
getDevice(d) == [method |-> "GET", path |-> <<"frontend", "devices", d>>]
approveDevice(d) == [method |-> "POST", path |-> <<"frontend", "devices", d, "approve">>]

\* ------------------------------------------------------------ requests in flight

\* setInterval(refreshDevices, 10_000)
PollInterval == 10000

\* History: the ids, among those whose approved flag the reply to call will
\* carry, that are already approved in the Registry when call is issued. It is
\* recorded while a Devices and a DeviceDetail are both mounted, which is when
\* the two views can be compared.
Seen(call) ==
    IF ~(listMounted /\ detMounted) \/ call.method # "GET" THEN {}
    ELSE IF Len(call.path) = 2 THEN {d \in Ids : registry[d]}
    ELSE {d \in {call.path[3]} : registry[d]}

\* A request fetch() has sent. live: the component instance whose callbacks wait
\* for it is still mounted; refreshId: the id the `refresh` passed to .then()
\* closes over (approveDevice only); after: the device whose approval this
\* getDevice follows (a getDevice issued by .then(refresh) only).
Request(call, live, refreshId, after) ==
    [method |-> call.method, path |-> call.path, live |-> live,
     refreshId |-> refreshId, after |-> after, seen |-> Seen(call),
     stage |-> "sent", status |-> 0, body |-> <<>>]

IsList(r) == r.method = "GET" /\ Len(r.path) = 2
IsGet(r) == r.method = "GET" /\ Len(r.path) = 3
IsApprove(r) == r.method = "POST" /\ Len(r.path) = 4
Arg(r) == r.path[3]

Reply(r, status, body) == [r EXCEPT !.stage = "replied", !.status = status, !.body = body]

Remove(q, i) == SubSeq(q, 1, i - 1) \o SubSeq(q, i + 1, Len(q))

\* The requests of q, those of an unmounting component marked as no longer
\* live: the polls of Devices (list = TRUE) or the requests of DeviceDetail.
Unmounted(q, list) ==
    [k \in 1..Len(q) |-> IF IsList(q[k]) = list THEN [q[k] EXCEPT !.live = FALSE] ELSE q[k]]

\* What fetch() can give for r now: a network failure at any time; a non-2xx
\* response at any time (the Registry refuses the request and changes nothing,
\* so that reply is made as it arrives); once the Registry has replied, its
\* response. The body of any response may break while it is read.
Outcomes(r) ==
    {FetchFailed}
    \cup {FetchResponse(st, ErrorText(st), b) : st \in {404, 500}, b \in BOOLEAN}
    \cup (IF r.stage = "replied"
          THEN {FetchResponse(r.status, r.body, b) : b \in BOOLEAN}
          ELSE {})

NoUi == [loading |-> FALSE, heading |-> NoId, trigger |-> FALSE, rows |-> 0]

Init ==
    /\ registry = [d \in Ids |-> FALSE]
    /\ net = <<>>
    /\ devBuild \in BOOLEAN
    /\ listMounted = FALSE
    /\ devices = <<>>
    /\ interval = FALSE
    /\ elapsed = 0
    /\ detMounted = FALSE
    /\ id = NoId
    /\ device = <<>>
    /\ ui = NoUi
    /\ listSynced = {}
    /\ detSynced = {}
    /\ apiPc = "idle"
    /\ apiReq = getDevices
    /\ apiRes = FetchFailed
    /\ apiOut = Reject("", <<>>)

\* ---- the Registry and the simulator that feeds it

\* run_simulator.sh --approve: the simulator approves a device in the database.
AutoApprove(d) ==
    /\ ~registry[d]
    /\ registry' = [registry EXCEPT ![d] = TRUE]
    /\ UNCHANGED <<net, devBuild, listVars, detVars, apiVars>>

\* GET /frontend/devices
ServeList(i) ==
    /\ net[i].stage = "sent" /\ IsList(net[i])
    /\ net' = [net EXCEPT ![i] = Reply(@, 200, ListJson(registry))]
    /\ UNCHANGED <<registry, devBuild, listVars, detVars, apiVars>>

\* GET /frontend/devices/{id}
ServeGet(i) ==
    /\ net[i].stage = "sent" /\ IsGet(net[i])
    /\ net' = [net EXCEPT ![i] = Reply(@, 200, DetailJson(Arg(@), registry[Arg(@)]))]
    /\ UNCHANGED <<registry, devBuild, listVars, detVars, apiVars>>

\* POST /frontend/devices/{id}/approve
ServeApprove(i) ==
    /\ net[i].stage = "sent" /\ IsApprove(net[i])
    /\ net' = [net EXCEPT ![i] = Reply(@, 200, ApprovalJson(TRUE))]
    /\ registry' = [registry EXCEPT ![Arg(net[i])] = TRUE]
    /\ UNCHANGED <<devBuild, listVars, detVars, apiVars>>

\* ---- React

\* A mutant of SetState: the state outlives the instance (a store outside the
\* component), so an update is applied whether or not the instance is mounted.
SetStateUnmounted(mounted, old, new) == new

\* The setter useState returns: the state of a mounted instance is replaced by
\* the value; an update of an instance that is no longer mounted is dropped.
SetState(mounted, old, new) == IF mounted THEN new ELSE old

\* ---- DeviceDetail

\* A mutant of DetailRender: the button is rendered whatever device.approved is.
DetailRenderAlwaysButton(dev) ==
    IF dev = <<>>
    THEN [loading |-> TRUE, heading |-> NoId, trigger |-> FALSE, rows |-> 0]
    ELSE [loading |-> FALSE, heading |-> dev[1].id, trigger |-> TRUE,
          rows |-> Len(dev[1].sensors)]

\* What DeviceDetail returns: "Loading..." while device is null, else the
\* heading, the Approve button when !device.approved, and one row per sensor.
DetailRender(dev) ==
    IF dev = <<>>
    THEN [loading |-> TRUE, heading |-> NoId, trigger |-> FALSE, rows |-> 0]
    ELSE [loading |-> FALSE, heading |-> dev[1].id, trigger |-> ~dev[1].approved,
          rows |-> Len(dev[1].sensors)]

\* setDevice, as the callback of request r's promise.
setDevice(r, old, value) == SetState(r.live, old, <<value>>)

\* refresh, closed over the id d: the requests a call of it issues.
refresh(d, live, after) ==
    IF d # NoId THEN <<Request(getDevice(d), live, NoId, after)>> ELSE <<>>

\* The route /device/d is entered: a new DeviceDetail mounts with device = null
\* and its effect runs refresh(); under React.StrictMode a development build
\* runs the mount effect twice.
DetailMount(d) ==
    /\ ~detMounted
    /\ Len(net) + (IF devBuild THEN 2 ELSE 1) <= MaxInFlight
    /\ detMounted' = TRUE
    /\ id' = d
    /\ device' = <<>>
    /\ ui' = DetailRender(device')
    /\ net' = net \o refresh(d, TRUE, NoId)
                  \o (IF devBuild THEN refresh(d, TRUE, NoId) ELSE <<>>)
    /\ detSynced' = {}
    /\ UNCHANGED <<registry, devBuild, listVars, apiVars>>

\* The route parameter changes while DeviceDetail stays mounted: refresh is
\* re-created for the new id and the effect runs it; device is kept.
DetailNavigate(d) ==
    /\ detMounted /\ d # id
    /\ Len(net) < MaxInFlight
    /\ id' = d
    /\ net' = net \o refresh(d, TRUE, NoId)
    /\ ui' = DetailRender(device)
    /\ UNCHANGED <<registry, devBuild, listVars, detMounted, device, detSynced, apiVars>>

\* The route is left: the component unmounts (its effect has no cleanup).
DetailUnmount ==
    /\ detMounted
    /\ detMounted' = FALSE
    /\ id' = NoId
    /\ device' = <<>>
    /\ ui' = NoUi
    /\ detSynced' = {}
    /\ net' = Unmounted(net, FALSE)
    /\ UNCHANGED <<registry, devBuild, listVars, apiVars>>

\* A mutant of ClickApprove: the re-fetch is issued at once, beside the
\* approval, instead of after it.
ClickApproveEager ==
    /\ detMounted /\ ui.trigger
    /\ Len(net) + 2 <= MaxInFlight
    /\ net' = Append(net, Request(approveDevice(device[1].id), TRUE, id, NoId))
                 \o refresh(device[1].id, TRUE, device[1].id)
    /\ UNCHANGED <<registry, devBuild, listVars, detVars, apiVars>>

\* onClick of the Approve button: approveDevice(device.id).then(refresh)
ClickApprove ==
    /\ detMounted /\ ui.trigger
    /\ Len(net) < MaxInFlight
    /\ net' = Append(net, Request(approveDevice(device[1].id), TRUE, id, NoId))
    /\ UNCHANGED <<registry, devBuild, listVars, detVars, apiVars>>

\* getDevice(id).then(setDevice)
GetDeviceThen(i) ==
    /\ IsGet(net[i])
    /\ \E out \in Outcomes(net[i]) :
          /\ api(out).ok
          /\ device' = setDevice(net[i], device, api(out).value)
    /\ ui' = IF detMounted THEN DetailRender(device') ELSE NoUi
    /\ detSynced' = IF net[i].live THEN detSynced \cup net[i].seen ELSE detSynced
    /\ net' = Remove(net, i)
    /\ UNCHANGED <<registry, devBuild, listVars, detMounted, id, apiVars>>

\* getDevice(id) ... .catch(console.error): the error is written to the browser
\* console; nothing the component reads changes.
GetDeviceCatch(i) ==
    /\ IsGet(net[i])
    /\ \E out \in Outcomes(net[i]) : ~api(out).ok
    /\ net' = Remove(net, i)
    /\ UNCHANGED <<registry, devBuild, listVars, detVars, apiVars>>

\* A mutant of ApproveThen: the held record is marked approved as soon as the
\* approval fulfils, before the re-fetch answers.
ApproveThenOptimistic(i) ==
    /\ IsApprove(net[i])
    /\ \E out \in Outcomes(net[i]) : api(out).ok
    /\ net' = Remove(net, i) \o refresh(net[i].refreshId, net[i].live, Arg(net[i]))
    /\ device' = IF net[i].live /\ device # <<>>
                 THEN <<[device[1] EXCEPT !.approved = TRUE]>>
                 ELSE device
    /\ ui' = IF detMounted THEN DetailRender(device') ELSE NoUi
    /\ UNCHANGED <<registry, devBuild, listVars, detMounted, id, detSynced, apiVars>>

\* approveDevice(device.id).then(refresh): the promise fulfils and refresh runs.
ApproveThen(i) ==
    /\ IsApprove(net[i])
    /\ \E out \in Outcomes(net[i]) : api(out).ok
    /\ net' = Remove(net, i) \o refresh(net[i].refreshId, net[i].live, Arg(net[i]))
    /\ UNCHANGED <<registry, devBuild, listVars, detVars, apiVars>>

\* approveDevice(device.id) rejects: .then(refresh) has no rejection handler,
\* so refresh is not called and the rejection stays unhandled.
ApproveRejected(i) ==
    /\ IsApprove(net[i])
    /\ \E out \in Outcomes(net[i]) : ~api(out).ok
    /\ net' = Remove(net, i)
    /\ UNCHANGED <<registry, devBuild, listVars, detVars, apiVars>>

\* ---- Devices

\* A mutant of setDevices: the response is merged into the held collection.
setDevicesMerge(r, old, value) == SetState(r.live, old, old \o value)

\* setDevices, as the callback of request r's promise: the held collection
\* becomes the value the promise fulfilled with.
setDevices(r, old, value) == SetState(r.live, old, value)

\* refreshDevices: the request a call of it issues.
refreshDevices == Request(getDevices, TRUE, NoId, NoId)

\* The index route is entered: a new Devices mounts with devices = [], its effect
\* calls refreshDevices() and arms the interval; under React.StrictMode a
\* development build runs the effect, its cleanup and the effect again.
ListMount ==
    /\ ~listMounted
    /\ Len(net) + (IF devBuild THEN 2 ELSE 1) <= MaxInFlight
    /\ listMounted' = TRUE
    /\ devices' = <<>>
    /\ net' = net \o <<refreshDevices>> \o (IF devBuild THEN <<refreshDevices>> ELSE <<>>)
    /\ interval' = TRUE
    /\ elapsed' = 0
    /\ listSynced' = {}
    /\ UNCHANGED <<registry, devBuild, detVars, apiVars>>

\* A mutant of ListUnmount: the effect returns no cleanup, the timer stays armed.
ListUnmountKeepsInterval ==
    /\ listMounted
    /\ listMounted' = FALSE
    /\ devices' = <<>>
    /\ net' = Unmounted(net, TRUE)
    /\ listSynced' = {}
    /\ UNCHANGED <<registry, devBuild, interval, elapsed, detVars, apiVars>>

\* The component unmounts; the effect's cleanup: clearInterval(interval)
ListUnmount ==
    /\ listMounted
    /\ listMounted' = FALSE
    /\ devices' = <<>>
    /\ interval' = FALSE
    /\ elapsed' = 0
    /\ listSynced' = {}
    /\ net' = Unmounted(net, TRUE)
    /\ UNCHANGED <<registry, devBuild, detVars, apiVars>>

\* Time passes while the interval is armed, up to the moment it fires.
Advance ==
    /\ interval
    /\ elapsed + PollInterval \div 2 <= PollInterval
    /\ elapsed' = elapsed + PollInterval \div 2
    /\ UNCHANGED <<registry, net, devBuild, listMounted, devices, interval,
                   listSynced, detVars, apiVars>>

\* The interval fires: refreshDevices()
Tick ==
    /\ interval /\ elapsed = PollInterval
    /\ Len(net) < MaxInFlight
    /\ net' = Append(net, refreshDevices)
    /\ elapsed' = 0
    /\ UNCHANGED <<registry, devBuild, listMounted, devices, interval, listSynced,
                   detVars, apiVars>>

\* getDevices().then(setDevices)
GetDevicesThen(i) ==
    /\ IsList(net[i])
    /\ \E out \in Outcomes(net[i]) :
          /\ api(out).ok
          /\ devices' = setDevices(net[i], devices, api(out).value)
    /\ listSynced' = IF net[i].live THEN listSynced \cup net[i].seen ELSE listSynced
    /\ net' = Remove(net, i)
    /\ UNCHANGED <<registry, devBuild, listMounted, interval, elapsed, detVars,
                   apiVars>>

\* A mutant of GetDevicesCatch: a failed poll empties the held collection.
GetDevicesCatchClears(i) ==
    /\ IsList(net[i])
    /\ \E out \in Outcomes(net[i]) : ~api(out).ok
    /\ net' = Remove(net, i)
    /\ devices' = <<>>
    /\ UNCHANGED <<registry, devBuild, listMounted, interval, elapsed, listSynced,
                   detVars, apiVars>>

\* A mutant of GetDevicesCatch: a failed poll stops the schedule.
GetDevicesCatchStops(i) ==
    /\ IsList(net[i])
    /\ \E out \in Outcomes(net[i]) : ~api(out).ok
    /\ net' = Remove(net, i)
    /\ interval' = FALSE
    /\ elapsed' = 0
    /\ UNCHANGED <<registry, devBuild, listMounted, devices, listSynced, detVars, apiVars>>

\* getDevices() ... .catch(console.error): the error is written to the browser
\* console; nothing the component reads changes.
GetDevicesCatch(i) ==
    /\ IsList(net[i])
    /\ \E out \in Outcomes(net[i]) : ~api(out).ok
    /\ net' = Remove(net, i)
    /\ UNCHANGED <<registry, devBuild, listVars, detVars, apiVars>>

\* ---- one api() call on its own

\* The objects the client holds (DeviceDTO), as the Registry's replies encode them.
SummaryDTO(d, approved) == [id |-> d, approved |-> approved, sensor_count |-> Len(Sensors(d))]
DetailDTO(d, approved) == [id |-> d, approved |-> approved, sensors |-> Sensors(d)]
Summaries(reg) == [i \in 1..Len(RegistryOrder) |-> SummaryDTO(RegistryOrder[i], reg[RegistryOrder[i]])]

ApiCalls == {getDevices} \cup {getDevice(d) : d \in Ids} \cup {approveDevice(d) : d \in Ids}

ApiStatuses == {199, 200, 201, 204, 299, 300, 404, 500}

\* Bodies that are one JSON value.
JsonBodies ==
    {ListJson(reg) : reg \in [Ids -> BOOLEAN]}
    \cup {DetailJson(d, b) : d \in Ids, b \in BOOLEAN}
    \cup {ApprovalJson(b) : b \in BOOLEAN}

\* Bodies that are not: empty, plain text, cut short, followed by more.
MalformedBodies ==
    {<<>>, ErrorText(404), ErrorText(500), <<P("["), P("{")>>,
     ApprovalJson(TRUE) \o <<P("}")>>}

ApiOutcomes ==
    {FetchFailed} \cup
    {FetchResponse(st, body, b) :
        st \in ApiStatuses, body \in JsonBodies \cup MalformedBodies, b \in BOOLEAN}

\* api(path, options) is called: fetch sends the request.
ApiCall(call) ==
    /\ apiPc = "idle"
    /\ apiPc' = "fetching"
    /\ apiReq' = call
    /\ UNCHANGED <<registry, net, devBuild, listVars, detVars, apiRes, apiOut>>

\* fetch settles and api runs to its end.
ApiSettle(res) ==
    /\ apiPc = "fetching"
    /\ apiPc' = "settled"
    /\ apiRes' = res
    /\ apiOut' = api(res)
    /\ UNCHANGED <<registry, net, devBuild, listVars, detVars, apiReq>>

\* The caller has consumed the result.
ApiDone ==
    /\ apiPc = "settled"
    /\ apiPc' = "idle"
    /\ UNCHANGED <<registry, net, devBuild, listVars, detVars, apiReq, apiRes, apiOut>>

ApiNext ==
    \/ \E call \in ApiCalls : ApiCall(call)
    \/ \E res \in ApiOutcomes : ApiSettle(res)
    \/ ApiDone

\* The API client alone, over every outcome of fetch.
SpecApi == Init /\ [][ApiNext]_vars

\* ------------------------------------------------------------ specifications

RegistryNext == \E d \in Ids : AutoApprove(d)

DetailNext ==
    \/ \E d \in Ids : DetailMount(d)
    \/ \E d \in Ids : DetailNavigate(d)
    \/ DetailUnmount
    \/ ClickApprove
    \/ \E i \in 1..Len(net) : ServeGet(i)
    \/ \E i \in 1..Len(net) : ServeApprove(i)
    \/ \E i \in 1..Len(net) : GetDeviceThen(i)
    \/ \E i \in 1..Len(net) : GetDeviceCatch(i)
    \/ \E i \in 1..Len(net) : ApproveThen(i)
    \/ \E i \in 1..Len(net) : ApproveRejected(i)

ListNext ==
    \/ ListMount
    \/ ListUnmount
    \/ Advance
    \/ Tick
    \/ \E i \in 1..Len(net) : ServeList(i)
    \/ \E i \in 1..Len(net) : GetDevicesThen(i)
    \/ \E i \in 1..Len(net) : GetDevicesCatch(i)

\* The Detail view against the Registry.
SpecDetail == Init /\ [][RegistryNext \/ DetailNext]_vars

\* The List view against the Registry.
SpecList == Init /\ [][RegistryNext \/ ListNext]_vars

\* A Devices and a DeviceDetail side by side (two windows of the dashboard),
\* against the Registry.
BothNext ==
    \/ ListMount
    \/ Advance
    \/ Tick
    \/ \E d \in Ids : DetailMount(d)
    \/ \E d \in Ids : DetailNavigate(d)
    \/ ClickApprove
    \/ \E i \in 1..Len(net) : ServeList(i)
    \/ \E i \in 1..Len(net) : ServeGet(i)
    \/ \E i \in 1..Len(net) : ServeApprove(i)
    \/ \E i \in 1..Len(net) : GetDevicesThen(i)
    \/ \E i \in 1..Len(net) : GetDevicesCatch(i)
    \/ \E i \in 1..Len(net) : GetDeviceThen(i)
    \/ \E i \in 1..Len(net) : GetDeviceCatch(i)
    \/ \E i \in 1..Len(net) : ApproveThen(i)
    \/ \E i \in 1..Len(net) : ApproveRejected(i)

SpecBoth == Init /\ [][BothNext]_vars

\* ------------------------------------------------------------ properties

LiveLists == {i \in 1..Len(net) : IsList(net[i]) /\ net[i].live}
LiveApproves == {i \in 1..Len(net) : IsApprove(net[i]) /\ net[i].live}

\* C1: a getDevice response that arrives for an id other than the currently
\* requested one is discarded: it leaves the held record as it was.
StaleDiscard ==
    [][\A i \in 1..Len(net) :
          (IsGet(net[i]) /\ net[i].live /\ Arg(net[i]) # id /\ GetDeviceThen(i))
              => device' = device]_vars

\* C2: when an approveDevice(x) of the Detail view completes, fulfilled or
\* rejected, the view issues a getDevice(x) in the same step.
RefetchAfterApprove ==
    [][\A i \in 1..Len(net) :
          (IsApprove(net[i]) /\ (ApproveThen(i) \/ ApproveRejected(i))) =>
              /\ Len(net') = Len(net)
              /\ IsGet(net'[Len(net')])
              /\ net'[Len(net')].stage = "sent"
              /\ Arg(net'[Len(net')]) = Arg(net[i])]_vars

\* C3: when the getDevice(x) that follows a completed approveDevice(x) fulfils,
\* the held record's approved equals the Registry's approved flag of x at that
\* instant.
ApproveThenRefetch ==
    [][\A i \in 1..Len(net) :
          (IsGet(net[i]) /\ net[i].live /\ net[i].after = Arg(net[i]) /\ GetDeviceThen(i)) =>
              /\ device' # <<>>
              /\ device'[1].id = net[i].after
              /\ device'[1].approved = registry'[net[i].after]]_vars

\* C3 witness: the view holds x unapproved, its approveDevice(x) has completed
\* and the Registry's reply to the getDevice(x) that followed is on its way.
RefetchReplyArriving ==
    /\ detMounted /\ device # <<>> /\ ~device[1].approved
    /\ \E i \in 1..Len(net) :
          /\ IsGet(net[i]) /\ net[i].live /\ net[i].after = device[1].id
          /\ Arg(net[i]) = device[1].id
          /\ net[i].stage = "replied" /\ net[i].status = 200

\* C4: the approval trigger is offered only while the view is mounted, holds a
\* record and that record's approved is false.
TriggerOnlyWhenPending ==
    ui.trigger => (detMounted /\ device # <<>> /\ ~device[1].approved)

\* C4 witness: an approved record is held and no trigger is offered.
TriggerWithheld ==
    detMounted /\ device # <<>> /\ device[1].approved /\ ~ui.trigger

\* C5: when a listDevices response is applied, the held collection is exactly
\* the sequence the Registry returned, whatever was held before.
WholesaleReplacement ==
    [][\A i \in 1..Len(net) :
          (IsList(net[i]) /\ net[i].live /\ GetDevicesThen(i)) =>
              \A reg \in [Ids -> BOOLEAN] :
                  net[i].body = ListJson(reg) => devices' = Summaries(reg)]_vars

\* C5 witness: the view holds a snapshot taken after d2 alone was approved,
\* while d1 has been approved since.
ListHoldsSnapshot ==
    /\ listMounted /\ Len(devices) = 2
    /\ ~devices[1].approved /\ devices[2].approved
    /\ registry["d1"]

\* C6: while the List view is mounted the interval stays armed and never
\* overruns its period; a failed poll leaves the schedule as it was; and when
\* the period has elapsed, time goes on only by a new listDevices being issued.
PollContinuity ==
    /\ [](listMounted => (interval /\ elapsed <= PollInterval))
    /\ [][\A i \in 1..Len(net) :
            (IsList(net[i]) /\ net' = Remove(net, i)) =>
                (interval' = interval /\ elapsed' = elapsed)]_vars
    /\ [][(listMounted /\ listMounted' /\ elapsed = PollInterval /\ elapsed' # elapsed) =>
            (net' = Append(net, refreshDevices) /\ elapsed' = 0)]_vars

\* C6 witness: every poll so far has settled, none brought a collection, and
\* the next one is due.
NextPollDueAfterFailure ==
    listMounted /\ interval /\ elapsed = PollInterval /\ net = <<>> /\ devices = <<>>

\* C7: the interval issues a listDevices only when no listDevices of the view
\* is still in flight.
SerialTicks ==
    [][Tick => LiveLists = {}]_vars

\* C8: a listDevices response that settles after its view was unmounted
\* changes no held collection.
LateResponseDiscarded ==
    [][\A i \in 1..Len(net) :
          (IsList(net[i]) /\ ~net[i].live /\ net' = Remove(net, i)) =>
              devices' = devices]_vars

\* C8 witness: the view is unmounted and a successful reply to one of its
\* polls is still on its way.
LateResponsePending ==
    /\ ~listMounted
    /\ \E i \in 1..Len(net) :
          IsList(net[i]) /\ ~net[i].live /\ net[i].stage = "replied" /\ net[i].status = 200

\* C9: at most one approveDevice of the Detail view is in flight.
NoDuplicateSubmission ==
    Cardinality(LiveApproves) <= 1

Is2xx(status) == status \in 200..299

\* A network failure: fetch rejects, or the connection breaks while the body
\* is read.
NetworkFailure(res) == res.failed \/ ~res.readable

\* C10 as stated: a network failure rejects; a non-2xx response rejects with
\* its body text as the detail; every 2xx response fulfils.
ApiContractAsStated ==
    apiPc = "settled" =>
        /\ NetworkFailure(apiRes) => ~apiOut.ok
        /\ (~NetworkFailure(apiRes) /\ ~Is2xx(apiRes.status)) =>
              (~apiOut.ok /\ apiOut.error.message = apiRes.body)
        /\ (~NetworkFailure(apiRes) /\ Is2xx(apiRes.status)) => apiOut.ok

\* C10 as amended: a network failure rejects; a non-2xx response rejects with
\* its body text as the detail; a 2xx response fulfils with the value its body
\* encodes when the body is JSON, and rejects when it is not.
ApiContract ==
    apiPc = "settled" =>
        /\ NetworkFailure(apiRes) => ~apiOut.ok
        /\ (~NetworkFailure(apiRes) /\ ~Is2xx(apiRes.status)) =>
              (~apiOut.ok /\ apiOut.error.message = apiRes.body)
        /\ (~NetworkFailure(apiRes) /\ Is2xx(apiRes.status)) =>
              /\ apiRes.body \in MalformedBodies => ~apiOut.ok
              /\ apiRes.body \in JsonBodies => apiOut.ok
              /\ \A reg \in [Ids -> BOOLEAN] :
                    apiRes.body = ListJson(reg) => apiOut.value = Summaries(reg)
              /\ \A d \in Ids, b \in BOOLEAN :
                    apiRes.body = DetailJson(d, b) => apiOut.value = DetailDTO(d, b)
              /\ \A b \in BOOLEAN :
                    apiRes.body = ApprovalJson(b) => apiOut.value = [success |-> b]

\* C10 witness: a 204 whose empty body was read to its end has rejected.
ApiRejected2xx ==
    /\ apiPc = "settled" /\ ~apiRes.failed /\ apiRes.readable
    /\ apiRes.status = 204 /\ apiRes.body = <<>> /\ ~apiOut.ok

SingleFetchOnEntry ==
    /\ [][(~detMounted /\ detMounted') =>
             net' = Append(net, Request(getDevice(id'), TRUE, NoId, NoId))]_vars
    /\ [][\A i \in 1..Len(net) :
             (IsGet(net[i]) /\ net[i].live /\ GetDeviceCatch(i)) =>
                 (net' = Remove(net, i) /\ device' = device)]_vars

\* C13: after the Detail view is unmounted it issues no request: an
\* approveDevice of the unmounted view that completes is followed by no
\* getDevice, and a getDevice response of the unmounted view is not applied.
QuietAfterDeactivation ==
    /\ [][\A i \in 1..Len(net) :
             (IsApprove(net[i]) /\ ~net[i].live /\ (ApproveThen(i) \/ ApproveRejected(i))) =>
                 net' = Remove(net, i)]_vars
    /\ [][\A i \in 1..Len(net) :
             (IsGet(net[i]) /\ ~net[i].live /\ GetDeviceThen(i)) => device' = device]_vars

\* C14: once the List view is unmounted its timer is not armed, and while it
\* stays unmounted no step adds a request: every listDevices in flight is one
\* the view issued before it was unmounted.
ScheduleCanceled ==
    /\ [](~listMounted => ~interval)
    /\ [][(~listMounted /\ ~listMounted') =>
             /\ Len(net') <= Len(net)
             /\ \A k \in 1..Len(net') : IsList(net'[k]) => ~net'[k].live]_vars

\* C14 witness: the view was unmounted while a poll the Registry has not
\* answered was in flight; the timer is cleared.
UnmountedWithPollInFlight ==
    /\ ~listMounted /\ ~interval
    /\ \E i \in 1..Len(net) : IsList(net[i]) /\ ~net[i].live /\ net[i].stage = "sent"

\* C15: while the Detail view stays mounted its held record changes only in a
\* step that applies the Registry's 200 reply to one of its getDevice requests,
\* and then to the record that reply encodes; clicking Approve and the
\* completion of an approveDevice, fulfilled or rejected, leave it unchanged.
NoOptimisticMutation ==
    [][/\ (detMounted /\ detMounted' /\ device' # device) =>
             \E i \in 1..Len(net) :
                 /\ IsGet(net[i]) /\ net[i].live
                 /\ net[i].stage = "replied" /\ net[i].status = 200
                 /\ net' = Remove(net, i)
                 /\ \E b \in BOOLEAN :
                       /\ net[i].body = DetailJson(Arg(net[i]), b)
                       /\ device' = <<DetailDTO(Arg(net[i]), b)>>
       /\ (detMounted /\ detMounted' /\ Len(net') > Len(net)) => device' = device
       /\ \A i \in 1..Len(net) :
             (IsApprove(net[i]) /\ net[i].live /\ (ApproveThen(i) \/ ApproveRejected(i)))
                 => device' = device]_vars

\* C15 witness: the approval of the held device has fulfilled and the Registry
\* has the flag set, the re-fetch is not answered yet, and the held record
\* still says approved = false.
ApprovedButHeldPending ==
    /\ detMounted /\ device # <<>> /\ ~device[1].approved /\ registry[device[1].id]
    /\ \E i \in 1..Len(net) :
          /\ IsGet(net[i]) /\ net[i].live /\ net[i].stage = "sent"
          /\ net[i].after = device[1].id

\* C17: whenever the Detail view holds a record, the record's id is the
\* currently requested id.
HeldMatchesRequested ==
    (detMounted /\ device # <<>>) => device[1].id = id

\* C18: every approveDevice(x) of the Detail view is issued with x the
\* requested id at the time of the click, which is also the id the re-fetch
\* chained to it will target.
RefetchTargetsApproved ==
    \A i \in 1..Len(net) : IsApprove(net[i]) => Arg(net[i]) = net[i].refreshId

\* The collection devs lists d as approved.
HeldApproved(devs, d) == \E k \in 1..Len(devs) : devs[k].id = d /\ devs[k].approved

\* C19: while the List view stays mounted, a device it holds as approved is
\* never held as not approved afterwards.
ListApprovedMonotonic ==
    [][(listMounted /\ listMounted') =>
          \A d \in Ids : HeldApproved(devices, d) => HeldApproved(devices', d)]_vars

\* C20: while the Detail view stays mounted, the approved value it holds for
\* one device id never goes from true to false.
DetailApprovedMonotonic ==
    [][(detMounted /\ detMounted' /\ device # <<>> /\ device' # <<>>
          /\ device'[1].id = device[1].id /\ device[1].approved)
             => device'[1].approved]_vars

\* C16: when d is approved in the Registry, the List view and the Detail view
\* of d have each applied a response to a request issued after d was approved,
\* and no request is in flight, both views hold d as approved.
Convergence ==
    \A d \in Ids :
        (/\ registry[d] /\ net = <<>>
         /\ listMounted /\ d \in listSynced
         /\ detMounted /\ id = d /\ d \in detSynced)
            => (/\ HeldApproved(devices, d)
                /\ device # <<>> /\ device[1].id = d /\ device[1].approved)

====
